---- MODULE Spec2Model ----
(***************************************************************************)
(* Model of providers/aws/aws_provider.py:                                 *)
(*   - the session bootstrap (provider_set_session, AWS_Provider,          *)
(*     validate_credentials, assume_role, get_organizations_metadata),     *)
(*   - credential renewal (AWS_Provider.refresh),                          *)
(*   - the regional client fan-out (generate_regional_clients),            *)
(*   - the reconciliation of Security Hub findings                         *)
(*     (resolve_security_hub_previous_findings).                           *)
(* Spec is the bootstrap followed by the operations on the returned        *)
(* context; SpecReconcile is the reconciliation against a finding store.   *)
(***************************************************************************)
EXTENDS Integers, Sequences, FiniteSets, TLC

VARIABLES
    input,              \* the six arguments of provider_set_session
    pc,                 \* position of the process in provider_set_session / afterwards
    current_audit_info, \* the global AWS_Audit_Info object
    local,              \* locals of provider_set_session
    refreshable,        \* the RefreshableCredentials object of the assumed session
    calls,              \* external calls issued so far, in order, with their outcome
    clock,              \* wall clock
    returned,           \* what provider_set_session returned (the context) or None
    regional_clients,   \* result of the last generate_regional_clients call
    handed,             \* credentials handed out by the audit session's provider
    json_asff_file,     \* the findings file of the current run
    store,              \* the findings held by Security Hub
    rc,                 \* locals of resolve_security_hub_previous_findings
    hist                \* what the reconciliation runs did so far

svars == <<input, pc, current_audit_info, local, refreshable, calls, clock,
           returned, regional_clients, handed>>
rvars == <<json_asff_file, store, rc, hist>>
vars == <<input, pc, current_audit_info, local, refreshable, calls, clock,
          returned, regional_clients, handed, json_asff_file, store, rc, hist>>

\* ------------------------------------------------------------------ values
\* Python's None, and truthiness of an optional string / collection.
None == "<None>"
Truthy(x) == x # None /\ x # ""

\* An ARN "arn:partition:service:region:account:resource" is the tuple of its
\* colon-delimited segments.
BaseArn     == <<"arn", "aws", "iam", "", "111111111111", "user/auditor">>
RoleArn     == <<"arn", "aws-cn", "iam", "", "222222222222", "role/audit">>
OrgRoleArn  == <<"arn", "aws-us-gov", "iam", "", "999999999999", "role/org">>
BadArn      == <<"arn", "aws", "iam">>
NoArn       == <<>>

BaseAccount == BaseArn[5]

\* bounds of the model
MaxClock    == 3
MaxDuration == 2

ArnTruthy(a) == a # NoArn

\* arnparse(arn): the fields of a parsed ARN.
arnparse(a) ==
    [partition |-> a[2], service |-> a[3], region |-> a[4],
     account_id |-> a[5], resource |-> a[6]]

\* lib.arn.arn.arn_parsing: validates the ARN and returns it parsed, raises on
\* an invalid one.
ArnValid(a) == Len(a) = 6 /\ a[1] = "arn" /\ a[3] = "iam" /\ a[5] # ""
arn_parsing(a) ==
    IF ArnValid(a) THEN [raised |-> FALSE, value |-> arnparse(a)]
    ELSE [raised |-> TRUE, value |-> arnparse(<<"", "", "", "", "", "">>)]

NoParsed == arnparse(<<"", "", "", "", "", "">>)

\* ------------------------------------------------------------------ objects
\* boto3 session.Session objects.  name tells the two sessions of a run apart;
\* refreshable says whether the session's credentials are the
\* RefreshableCredentials object built from an assumed role.
NoSession == [name |-> None, profile |-> None, region_name |-> None,
              refreshable |-> FALSE]

\* AWS_Credentials(aws_access_key_id, aws_session_token, aws_secret_access_key,
\* expiration); NoCredentials stands for credentials=None.
NoCredentials == [aws_access_key_id |-> 0, aws_session_token |-> 0,
                  aws_secret_access_key |-> 0, expiration |-> 0 - 1]

\* RefreshableCredentials(access_key, secret_key, token, expiry_time).
NoRefreshable == [access_key |-> 0, secret_key |-> 0, token |-> 0,
                  expiry_time |-> 0 - 1]

NoOrganizationsInfo ==
    [account_details_email |-> <<>>, account_details_name |-> <<>>,
     account_details_arn |-> <<>>, account_details_org |-> None,
     account_details_tags |-> <<>>]

\* A response of sts assume_role: the key material is told apart by the serial
\* number of the call that issued it.
StsResponse(serial, now, duration) ==
    [Credentials |-> [AccessKeyId     |-> 10 * serial + 1,
                      SecretAccessKey |-> 10 * serial + 2,
                      SessionToken    |-> 10 * serial + 3,
                      Expiration      |-> now + duration]]
NoResponse == [Credentials |-> [AccessKeyId |-> 0, SecretAccessKey |-> 0,
                                SessionToken |-> 0, Expiration |-> 0 - 1]]

\* One record per external call, in the order issued.
Call(api, session, key, role, hasExt, ext, duration, account, ok) ==
    [api |-> api, session |-> session, access_key |-> key, RoleArn |-> role,
     HasExternalId |-> hasExt, ExternalId |-> ext, DurationSeconds |-> duration,
     AccountId |-> account, ok |-> ok]

\* ------------------------------------------------------------------ inputs
Outcomes == {TRUE, FALSE}          \* an external call succeeds or raises

Inputs ==
    [input_profile          : {"default"},
     input_role             : {NoArn, RoleArn, BadArn},
     input_session_duration : 1..MaxDuration,
     input_external_id      : {None, "", "ext-1"},
     input_regions          : {{}, {"us-east-1"}, {"us-east-1", "cn-north-1"},
                               {"moon-1"}},
     organizations_role_arn : {NoArn, OrgRoleArn, BadArn}]

\* No generate_regional_clients call made yet.
NoClients == [service |-> None, clients |-> <<>>]

\* Nothing handed out yet by the audit session's credential provider.
NoHanded == [creds |-> NoRefreshable, at |-> 0 - 1, was_expired |-> FALSE,
             refreshes |-> 0]

\* resolve_security_hub_previous_findings not running.
RcIdle == [pc |-> "idle", groups |-> <<>>, product_arn |-> NoArn, region |-> None,
           current_findings_ids |-> <<>>, findings_to_archive |-> <<>>,
           list_chunked |-> <<>>, batch |-> 0, group_no |-> 0,
           queried_group |-> 0]

\* No reconciliation run made yet.
NoHist == [submissions |-> <<>>, store_calls |-> <<>>, errors |-> 0,
           clean |-> TRUE, prev_clean |-> FALSE, rerun |-> FALSE,
           returned |-> "<running>"]

\* provider_set_session, lines 98-119: the fresh AWS_Audit_Info.
InitialAuditInfo(in) ==
    [original_session |-> NoSession,
     audit_session |-> NoSession,
     audited_account |-> None,
     audited_partition |-> None,
     profile |-> in.input_profile,
     profile_region |-> None,
     credentials |-> NoCredentials,
     assumed_role_info |-> [role_arn |-> NoArn, session_duration |-> 0,
                            external_id |-> None],
     audited_regions |-> in.input_regions,
     organizations_metadata |-> NoOrganizationsInfo]

NoIdentity == [UserId |-> None, Account |-> None, Arn |-> NoArn]

NoLocal == [assumed_session |-> NoSession, caller_identity |-> NoIdentity,
            role_arn_parsed |-> NoParsed, assumed_credentials |-> NoResponse,
            assumed_role_response |-> NoResponse]

Init ==
    /\ input \in Inputs
    /\ pc = "start"
    /\ current_audit_info = InitialAuditInfo(input)
    /\ local = NoLocal
    /\ refreshable = NoRefreshable
    /\ calls = <<>>
    /\ clock = 0
    /\ returned = None
    /\ regional_clients = NoClients
    /\ handed = NoHanded
    /\ json_asff_file = <<>>
    /\ store = <<>>
    /\ rc = RcIdle
    /\ hist = NoHist

\* sys.exit(): the process is gone, nothing runs afterwards.
Exit == pc' = "EXITED"

\* ------------------------------------------------------------------ AWS_Provider
\* AWS_Provider.set_session(audit_info) when the constructor succeeds: a
\* session on refreshable credentials if audit_info.credentials is set, a plain
\* profile session otherwise.  baseRegion is the region the profile configures.
set_session(audit_info, baseRegion) ==
    IF audit_info.credentials # NoCredentials
    THEN [name |-> "assumed", profile |-> audit_info.profile,
          region_name |-> audit_info.profile_region, refreshable |-> TRUE]
    ELSE [name |-> "original", profile |-> audit_info.profile,
          region_name |-> baseRegion, refreshable |-> FALSE]

\* The RefreshableCredentials built at lines 42-49.
assumed_refreshable_credentials(audit_info) ==
    [access_key  |-> audit_info.credentials.aws_access_key_id,
     secret_key  |-> audit_info.credentials.aws_secret_access_key,
     token       |-> audit_info.credentials.aws_session_token,
     expiry_time |-> audit_info.credentials.expiration]

\* assume_role with the failure of the sts call swallowed instead of ending the
\* process.
assume_role_no_exit(audit_info, stsOk, serial, now) ==
    IF ~({"original_session", "assumed_role_info"} \subseteq DOMAIN audit_info)
    THEN [exited |-> TRUE, issued |-> <<>>, response |-> NoResponse]
    ELSE
    LET ri  == audit_info.assumed_role_info
        ext == Truthy(ri.external_id)
    IN  [exited |-> FALSE,
         issued |-> <<Call("sts:AssumeRole", audit_info.original_session.name, 0,
                           ri.role_arn, ext,
                           IF ext THEN ri.external_id ELSE None,
                           ri.session_duration, None, stsOk)>>,
         response |-> IF stsOk
                      THEN StsResponse(serial, now, ri.session_duration)
                      ELSE NoResponse]

\* assume_role(audit_info): reads audit_info.original_session and
\* audit_info.assumed_role_info; every exception, the AttributeError of an
\* object without those attributes included, is logged and ends the process.
\* Yields whether it exited, the call it issued (if any) and the response.
assume_role(audit_info, stsOk, serial, now) ==
    IF ~({"original_session", "assumed_role_info"} \subseteq DOMAIN audit_info)
    THEN [exited |-> TRUE, issued |-> <<>>, response |-> NoResponse]
    ELSE LET ri  == audit_info.assumed_role_info
             ext == Truthy(ri.external_id)
             c   == Call("sts:AssumeRole", audit_info.original_session.name, 0,
                         ri.role_arn, ext,
                         IF ext THEN ri.external_id ELSE None,
                         ri.session_duration, None, stsOk)
         IN  [exited |-> ~stsOk, issued |-> <<c>>,
              response |-> IF stsOk
                           THEN StsResponse(serial, now, ri.session_duration)
                           ELSE NoResponse]

\* ------------------------------------------------------------------ organizations
\* Answers of the organizations endpoints for an account: an ARN
\* "arn:...:account/<org>/<account>" is the tuple of its "/"-delimited parts.
DescribeAccountResponse(account) ==
    [Account |-> [Email |-> <<"owner", account>>, Name |-> <<"name", account>>,
                  Arn |-> <<"arn:aws:organizations::999999999999:account",
                            "o-exampleorg", account>>]]
TagLists == {<<>>, <<[Key |-> "env", Value |-> "prod"]>>,
             <<[Key |-> "env", Value |-> "prod"], [Key |-> "team", Value |-> "sec"]>>}

\* lines 269-271: the tags joined as "key:value," pieces, in order.
RECURSIVE JoinTags(_)
JoinTags(tags) ==
    IF tags = <<>> THEN <<>>
    ELSE <<tags[1].Key, ":", tags[1].Value, ",">> \o JoinTags(Tail(tags))

\* get_organizations_metadata logging the exception and returning instead of
\* ending the process.
get_organizations_metadata_no_exit(metadata_account, assumed_credentials, outcome, tags) ==
    LET key == assumed_credentials.Credentials.AccessKeyId
        d   == Call("organizations:DescribeAccount", None, key, NoArn, FALSE,
                    None, 0, metadata_account, outcome # "describe_account")
        t   == Call("organizations:ListTagsForResource", None, key, NoArn,
                    FALSE, None, 0, metadata_account, outcome = "ok")
        r   == DescribeAccountResponse(metadata_account)
    IN  [exited |-> FALSE,
         issued |-> IF outcome = "describe_account" THEN <<d>> ELSE <<d, t>>,
         info   |-> IF outcome # "ok" THEN NoOrganizationsInfo
                    ELSE [account_details_email |-> r.Account.Email,
                          account_details_name  |-> r.Account.Name,
                          account_details_arn   |-> r.Account.Arn,
                          account_details_org   |-> r.Account.Arn[2],
                          account_details_tags  |-> JoinTags(tags)]]

\* get_organizations_metadata(metadata_account, assumed_credentials): a client
\* on the assumed credentials, describe_account, list_tags_for_resource; any
\* exception ends the process.  outcome names the first call that fails.
get_organizations_metadata(metadata_account, assumed_credentials, outcome, tags) ==
    LET key == assumed_credentials.Credentials.AccessKeyId
        d   == Call("organizations:DescribeAccount", None, key, NoArn, FALSE,
                    None, 0, metadata_account, outcome # "describe_account")
        t   == Call("organizations:ListTagsForResource", None, key, NoArn,
                    FALSE, None, 0, metadata_account, outcome = "ok")
        r   == DescribeAccountResponse(metadata_account)
    IN  [exited |-> outcome # "ok",
         issued |-> IF outcome = "describe_account" THEN <<d>> ELSE <<d, t>>,
         info   |-> IF outcome # "ok" THEN NoOrganizationsInfo
                    ELSE [account_details_email |-> r.Account.Email,
                          account_details_name  |-> r.Account.Name,
                          account_details_arn   |-> r.Account.Arn,
                          account_details_org   |-> r.Account.Arn[2],
                          account_details_tags  |-> JoinTags(tags)]]

\* ------------------------------------------------------------------ provider_set_session
\* line 123: AWS_Provider(current_audit_info).get_session() for the profile.
SetOriginalSession ==
    /\ pc = "start"
    /\ \E ok \in Outcomes, region \in {None, "eu-west-1"} :
        /\ calls' = Append(calls, Call("session.Session", None, 0, NoArn, FALSE,
                                       None, 0, None, ok))
        /\ IF ok
           THEN /\ current_audit_info' =
                     [current_audit_info EXCEPT
                        !.original_session = set_session(current_audit_info, region)]
                /\ pc' = "validate"
           ELSE /\ Exit
                /\ UNCHANGED current_audit_info
    /\ UNCHANGED <<input, local, refreshable, clock, returned, regional_clients,
                   handed, rvars>>

\* validate_credentials(session): whether it exited, and the call it issued.
validate_credentials(validate_session, ok) ==
    [exited |-> ~ok,
     issued |-> <<Call("sts:GetCallerIdentity", validate_session.name, 0, NoArn,
                       FALSE, None, 0, None, ok)>>,
     caller_identity |-> [UserId |-> "AIDAAUDITOR", Account |-> BaseAccount,
                          Arn |-> BaseArn]]

\* lines 126-133.
ValidateCredentials ==
    /\ pc = "validate"
    /\ \E ok \in Outcomes :
        LET r == validate_credentials(current_audit_info.original_session, ok) IN
        /\ calls' = calls \o r.issued
        /\ IF r.exited
           THEN /\ Exit
                /\ UNCHANGED <<current_audit_info, local>>
           ELSE /\ current_audit_info' =
                     [current_audit_info EXCEPT
                        !.audited_account = r.caller_identity.Account,
                        !.audited_partition =
                            arnparse(r.caller_identity.Arn).partition]
                /\ local' = [local EXCEPT !.caller_identity = r.caller_identity]
                /\ pc' = "org_check"
    /\ UNCHANGED <<input, refreshable, clock, returned, regional_clients, handed, rvars>>

\* The record of an arn_parsing attempt.
ParseCall(a, ok) == Call("arn_parsing", None, 0, a, FALSE, None, 0, None, ok)

\* lines 136-147: the organizations role is written into the shared
\* assumed_role_info (external_id is left as it is) and its ARN is validated.
OrganizationsArnParsing ==
    /\ pc = "org_check"
    /\ ArnTruthy(input.organizations_role_arn)
    /\ LET info == [current_audit_info EXCEPT
                      !.assumed_role_info.role_arn = input.organizations_role_arn,
                      !.assumed_role_info.session_duration =
                          input.input_session_duration]
           p    == arn_parsing(info.assumed_role_info.role_arn)
       IN  /\ current_audit_info' = info
           /\ calls' = Append(calls, ParseCall(info.assumed_role_info.role_arn,
                                               ~p.raised))
           /\ IF p.raised
              THEN Exit /\ UNCHANGED local
              ELSE /\ local' = [local EXCEPT !.role_arn_parsed = p.value]
                   /\ pc' = "org_assume"
    /\ UNCHANGED <<input, refreshable, clock, returned, regional_clients, handed, rvars>>

\* line 136, no organizations role.
SkipOrganizations ==
    /\ pc = "org_check"
    /\ ~ArnTruthy(input.organizations_role_arn)
    /\ pc' = "role_check"
    /\ UNCHANGED <<input, current_audit_info, local, refreshable, calls, clock,
                   returned, regional_clients, handed, rvars>>

\* line 153: assume_role(current_audit_info) for the organizations role.
OrganizationsAssumeRole ==
    /\ pc = "org_assume"
    /\ \E ok \in Outcomes :
        LET r == assume_role(current_audit_info, ok, Len(calls) + 1, clock) IN
        /\ calls' = calls \o r.issued
        /\ IF r.exited
           THEN Exit /\ UNCHANGED local
           ELSE /\ local' = [local EXCEPT !.assumed_credentials = r.response]
                /\ pc' = "org_metadata"
    /\ UNCHANGED <<input, current_audit_info, refreshable, clock, returned,
                   regional_clients, handed, rvars>>

\* GetOrganizationsMetadata asking for the account of the parsed role ARN.
GetOrganizationsMetadata_of_the_parsed_account ==
    /\ pc = "org_metadata"
    /\ \E outcome \in {"ok", "describe_account", "list_tags_for_resource"},
          tags \in TagLists :
        LET r == get_organizations_metadata(local.role_arn_parsed.account_id,
                                            local.assumed_credentials, outcome, tags)
        IN
        /\ calls' = calls \o r.issued
        /\ IF r.exited
           THEN Exit /\ UNCHANGED current_audit_info
           ELSE /\ current_audit_info' =
                     [current_audit_info EXCEPT !.organizations_metadata = r.info]
                /\ pc' = "role_check"
    /\ UNCHANGED <<input, local, refreshable, clock, returned, regional_clients,
                   handed, rvars>>

\* lines 154-157.
GetOrganizationsMetadata ==
    /\ pc = "org_metadata"
    /\ \E outcome \in {"ok", "describe_account", "list_tags_for_resource"},
          tags \in TagLists :
        LET r == get_organizations_metadata(current_audit_info.audited_account,
                                            local.assumed_credentials, outcome, tags)
        IN
        /\ calls' = calls \o r.issued
        /\ IF r.exited
           THEN Exit /\ UNCHANGED current_audit_info
           ELSE /\ current_audit_info' =
                     [current_audit_info EXCEPT !.organizations_metadata = r.info]
                /\ pc' = "role_check"
    /\ UNCHANGED <<input, local, refreshable, clock, returned, regional_clients,
                   handed, rvars>>

\* lines 160-172: the workload role, duration and external id are written into
\* the shared assumed_role_info and the ARN is validated.
RoleArnParsing ==
    /\ pc = "role_check"
    /\ ArnTruthy(input.input_role)
    /\ LET info == [current_audit_info EXCEPT
                      !.assumed_role_info.role_arn = input.input_role,
                      !.assumed_role_info.session_duration =
                          input.input_session_duration,
                      !.assumed_role_info.external_id = input.input_external_id]
           p    == arn_parsing(info.assumed_role_info.role_arn)
       IN  /\ current_audit_info' = info
           /\ calls' = Append(calls, ParseCall(info.assumed_role_info.role_arn,
                                               ~p.raised))
           /\ IF p.raised
              THEN Exit /\ UNCHANGED local
              ELSE /\ local' = [local EXCEPT !.role_arn_parsed = p.value]
                   /\ pc' = "role_assume"
    /\ UNCHANGED <<input, refreshable, clock, returned, regional_clients, handed, rvars>>

\* line 160, no workload role.
SkipRole ==
    /\ pc = "role_check"
    /\ ~ArnTruthy(input.input_role)
    /\ pc' = "finish"
    /\ UNCHANGED <<input, current_audit_info, local, refreshable, calls, clock,
                   returned, regional_clients, handed, rvars>>

\* lines 179-189: assume the workload role and keep its credentials.
RoleAssumeRole ==
    /\ pc = "role_assume"
    /\ \E ok \in Outcomes :
        LET r == assume_role(current_audit_info, ok, Len(calls) + 1, clock) IN
        /\ calls' = calls \o r.issued
        /\ IF r.exited
           THEN Exit /\ UNCHANGED <<local, current_audit_info>>
           ELSE /\ local' = [local EXCEPT !.assumed_role_response = r.response]
                /\ current_audit_info' =
                     [current_audit_info EXCEPT !.credentials =
                        [aws_access_key_id |-> r.response.Credentials.AccessKeyId,
                         aws_session_token |-> r.response.Credentials.SessionToken,
                         aws_secret_access_key |->
                             r.response.Credentials.SecretAccessKey,
                         expiration |-> r.response.Credentials.Expiration]]
                /\ pc' = "role_session"
    /\ UNCHANGED <<input, refreshable, clock, returned, regional_clients, handed, rvars>>

\* line 190: AWS_Provider(current_audit_info).get_session() on the assumed
\* credentials; its role_info is current_audit_info.assumed_role_info itself.
SetAssumedSession ==
    /\ pc = "role_session"
    /\ \E ok \in Outcomes :
        /\ calls' = Append(calls, Call("session.Session", None,
                                       current_audit_info.credentials.aws_access_key_id,
                                       NoArn, FALSE, None, 0, None, ok))
        /\ IF ok
           THEN /\ local' = [local EXCEPT !.assumed_session =
                                set_session(current_audit_info, None)]
                /\ refreshable' = assumed_refreshable_credentials(current_audit_info)
                /\ pc' = "finish"
           ELSE /\ Exit
                /\ UNCHANGED <<local, refreshable>>
    /\ UNCHANGED <<input, current_audit_info, clock, returned, regional_clients,
                   handed, rvars>>

\* FinishedAuditInfo taking the attribution from any parsed role ARN, also
\* that of the organizations role.
FinishedAuditInfo_any_parsed_role(info, loc) ==
    LET a == IF loc.role_arn_parsed # NoParsed
             THEN [info EXCEPT !.audit_session =
                                   IF loc.assumed_session # NoSession
                                   THEN loc.assumed_session
                                   ELSE info.original_session,
                               !.audited_account = loc.role_arn_parsed.account_id,
                               !.audited_partition = loc.role_arn_parsed.partition]
             ELSE [info EXCEPT !.audit_session = info.original_session]
    IN  [a EXCEPT !.profile_region = IF Truthy(a.audit_session.region_name)
                                     THEN a.audit_session.region_name
                                     ELSE "us-east-1"]

\* lines 192-207: choose the audit session and the attribution, fill the
\* default region, return the global context.
FinishedAuditInfo(info, loc) ==
    LET a == IF loc.assumed_session # NoSession
             THEN [info EXCEPT !.audit_session = loc.assumed_session,
                               !.audited_account = loc.role_arn_parsed.account_id,
                               !.audited_partition = loc.role_arn_parsed.partition]
             ELSE [info EXCEPT !.audit_session = info.original_session]
    IN  [a EXCEPT !.profile_region = IF Truthy(a.audit_session.region_name)
                                     THEN a.audit_session.region_name
                                     ELSE "us-east-1"]

Finish ==
    /\ pc = "finish"
    /\ current_audit_info' = FinishedAuditInfo(current_audit_info, local)
    /\ returned' = "current_audit_info"
    /\ pc' = "READY"
    /\ UNCHANGED <<input, local, refreshable, calls, clock, regional_clients,
                   handed, rvars>>

\* ------------------------------------------------------------------ renewal
\* datetime.isoformat() and the parse botocore applies to expiry_time.
isoformat(t) == <<"iso8601", t>>
parse_expiry(x) == x[2]

\* AWS_Provider.refresh(self), lines 72-86: assume_role(self.role_info), then
\* the dict botocore expects.  role_info is the AWS_Assume_Role object.
refresh(role_info, stsOk, serial, now) ==
    LET r == assume_role(role_info, stsOk, serial, now) IN
    [exited |-> r.exited, issued |-> r.issued,
     refreshed_credentials |->
        [access_key  |-> r.response.Credentials.AccessKeyId,
         secret_key  |-> r.response.Credentials.SecretAccessKey,
         token       |-> r.response.Credentials.SessionToken,
         expiry_time |-> isoformat(r.response.Credentials.Expiration)]]

\* The credentials are expired when their expiry time is not in the future.
Expired(c, now) == c.expiry_time <= now

\* A check obtains the credentials of the audit session.  For the assumed
\* session these are the RefreshableCredentials of lines 42-49: when expired
\* they call refresh_using, i.e. self.refresh, once and install what it returns.
\* handed records what the caller got: the credentials (none if the process
\* exited), the time, whether the credentials were expired at the request and
\* how often refresh was invoked for it.
GetCredentials ==
    /\ pc = "READY"
    /\ current_audit_info.audit_session.refreshable
    /\ IF Expired(refreshable, clock)
       THEN \E ok \in Outcomes :
            LET r == refresh(current_audit_info.assumed_role_info, ok,
                             Len(calls) + 1, clock)
                fresh == [access_key  |-> r.refreshed_credentials.access_key,
                          secret_key  |-> r.refreshed_credentials.secret_key,
                          token       |-> r.refreshed_credentials.token,
                          expiry_time |->
                              parse_expiry(r.refreshed_credentials.expiry_time)]
            IN  /\ calls' = calls \o r.issued
                /\ IF r.exited
                   THEN /\ Exit
                        /\ handed' = [creds |-> NoRefreshable, at |-> clock,
                                      was_expired |-> TRUE, refreshes |-> 1]
                        /\ UNCHANGED refreshable
                   ELSE /\ refreshable' = fresh
                        /\ handed' = [creds |-> fresh, at |-> clock,
                                      was_expired |-> TRUE, refreshes |-> 1]
                        /\ UNCHANGED pc
       ELSE /\ handed' = [creds |-> refreshable, at |-> clock,
                         was_expired |-> FALSE, refreshes |-> 0]
            /\ UNCHANGED <<pc, refreshable, calls>>
    /\ UNCHANGED <<input, current_audit_info, local, clock, returned,
                   regional_clients, rvars>>

\* Time passes while the process runs.
Tick ==
    /\ pc # "EXITED"
    /\ clock < MaxClock
    /\ clock' = clock + 1
    /\ UNCHANGED <<input, pc, current_audit_info, local, refreshable, calls,
                   returned, regional_clients, handed, rvars>>

\* ------------------------------------------------------------------ regional clients
Services == {"ec2", "route53"}

\* data["services"][service]["regions"][partition] of the services file.
json_regions(service, partition) ==
    CASE service = "ec2" /\ partition = "aws" ->
             <<"us-east-1", "eu-west-1", "ap-south-1">>
      [] service = "ec2" /\ partition = "aws-cn" ->
             <<"cn-north-1", "cn-northwest-1">>
      [] service = "route53" /\ partition = "aws" -> <<"us-east-1">>
      [] OTHER -> <<>>

SeqRange(q) == {q[i] : i \in 1..Len(q)}

\* The orders in which a Python set of strings may be iterated.
Orders(S) ==
    {q \in [1..Cardinality(S) -> S] : \A i, j \in 1..Cardinality(S) :
                                          q[i] = q[j] => i = j}

\* regions_of ignoring the requested scope.
regions_of_ignoring_scope(json, audited_regions, order) == json

\* lines 288-293: the regions the clients are built for.
regions_of(json, audited_regions, order) ==
    IF audited_regions # {} THEN order ELSE json

\* generate_regional_clients creating the clients from the base session.
generate_regional_clients_on_original_session(service, audit_info, order) ==
    LET json    == json_regions(service, audit_info.audited_partition)
        regions == regions_of(json, audit_info.audited_regions, order)
    IN  [i \in 1..Len(regions) |->
            [service |-> service, region_name |-> regions[i],
             region |-> regions[i], session |-> audit_info.original_session.name]]

\* generate_regional_clients(service, audit_info), lines 282-299; order is the
\* iteration order of set(json_regions).intersection(audited_regions).
generate_regional_clients(service, audit_info, order) ==
    LET json    == json_regions(service, audit_info.audited_partition)
        regions == regions_of(json, audit_info.audited_regions, order)
    IN  [i \in 1..Len(regions) |->
            [service |-> service, region_name |-> regions[i],
             region |-> regions[i], session |-> audit_info.audit_session.name]]

\* GenerateRegionalClients keeping the surviving regions as the context's
\* region scope.
GenerateRegionalClients_narrowing_the_scope ==
    /\ pc = "READY"
    /\ \E service \in Services :
        \E order \in Orders(SeqRange(json_regions(service,
                                current_audit_info.audited_partition))
                            \cap current_audit_info.audited_regions) :
            LET clients == generate_regional_clients(service, current_audit_info,
                                                     order)
            IN  /\ regional_clients' = [service |-> service, clients |-> clients]
                /\ current_audit_info' =
                      [current_audit_info EXCEPT !.audited_regions =
                          {clients[i].region : i \in 1..Len(clients)}]
    /\ UNCHANGED <<input, pc, local, refreshable, calls, clock, returned, handed,
                   rvars>>

GenerateRegionalClients ==
    /\ pc = "READY"
    /\ \E service \in Services :
        \E order \in Orders(SeqRange(json_regions(service,
                                current_audit_info.audited_partition))
                            \cap current_audit_info.audited_regions) :
            regional_clients' =
                [service |-> service,
                 clients |-> generate_regional_clients(service,
                                                       current_audit_info, order)]
    /\ UNCHANGED <<input, pc, current_audit_info, local, refreshable, calls, clock,
                   returned, handed, rvars>>

\* ------------------------------------------------------------------ specification
Next ==
    \/ SetOriginalSession
    \/ ValidateCredentials
    \/ OrganizationsArnParsing
    \/ SkipOrganizations
    \/ OrganizationsAssumeRole
    \/ GetOrganizationsMetadata
    \/ RoleArnParsing
    \/ SkipRole
    \/ RoleAssumeRole
    \/ SetAssumedSession
    \/ Finish
    \/ GetCredentials
    \/ Tick
    \/ GenerateRegionalClients

Spec == Init /\ [][Next]_vars

\* ------------------------------------------------------------------ Security Hub findings
\* bounds of the reconciliation model
MaxFile     == 2      \* findings in the current run's file
SmallStored == 3      \* findings of a region in a small store
MaxStored   == 201    \* findings of us-east-1 in a large store
PageSize    == 2      \* findings in a result page of get_findings

\* line 388: the size of a batch
BatchSize   == 100

\* The ProductArn values of the current findings, in the order Python's string
\* comparison gives them ("...:us-east-1:1..." sorts before "...:us-east-1::").
ProductArns ==
    << <<"arn", "aws", "securityhub", "eu-west-1", "", "product/prowler/prowler">>,
       <<"arn", "aws", "securityhub", "us-east-1", "111111111111",
         "product/111111111111/default">>,
       <<"arn", "aws", "securityhub", "us-east-1", "", "product/prowler/prowler">> >>
ArnRank(a) == CHOOSE i \in 1..Len(ProductArns) : ProductArns[i] = a

CurrentIds == {1, 2}
CurrentFindings == [ProductArn : SeqRange(ProductArns), Id : CurrentIds]
CurrentFiles == UNION {[1..n -> CurrentFindings] : n \in 0..MaxFile}

\* config.timestamp_utc formatted with "%Y-%m-%dT%H:%M:%SZ", and the
\* timestamp of findings stored by earlier runs.
timestamp_utc == [date |-> "2022-11-01", time |-> "10:00:00", microsecond |-> "123456"]
strftime(t) == <<t.date, "T", t.time, "Z">>
Earlier == <<"2022-10-01", "T", "09:00:00", "Z">>

StoredFinding(id, region, account, product, state) ==
    [Id |-> id, Region |-> region, AwsAccountId |-> account,
     ProductName |-> product, RecordState |-> state, UpdatedAt |-> Earlier]

\* A store: n1 ACTIVE findings of this tool and account in us-east-1, n2 in
\* eu-west-1, and findings the query must not return: one of another account,
\* one of another product, one already ARCHIVED.
StoreOf(n1, n2) ==
    [i \in 1..n1 |-> StoredFinding(i, "us-east-1", BaseAccount, "Prowler", "ACTIVE")]
    \o [i \in 1..n2 |-> StoredFinding(i, "eu-west-1", BaseAccount, "Prowler", "ACTIVE")]
    \o << StoredFinding(n1 + 1, "us-east-1", "222222222222", "Prowler", "ACTIVE"),
          StoredFinding(n1 + 2, "us-east-1", BaseAccount, "GuardDuty", "ACTIVE"),
          StoredFinding(n1 + 3, "us-east-1", BaseAccount, "Prowler", "ARCHIVED") >>

SmallStores == {StoreOf(n1, n2) : n1 \in {0, SmallStored}, n2 \in {0, SmallStored - 1}}
LargeStores == {StoreOf(MaxStored, n2) : n2 \in {0, SmallStored - 1}}

\* line 345: sorted(json_asff_file, key=itemgetter("ProductArn")), a stable sort.
RECURSIVE InsertSorted(_, _)
InsertSorted(q, x) ==
    IF q = <<>> THEN <<x>>
    ELSE IF ArnRank(q[Len(q)].ProductArn) <= ArnRank(x.ProductArn)
         THEN Append(q, x)
         ELSE Append(InsertSorted(SubSeq(q, 1, Len(q) - 1), x), q[Len(q)])

RECURSIVE sorted(_)
sorted(q) ==
    IF q = <<>> THEN <<>>
    ELSE InsertSorted(sorted(SubSeq(q, 1, Len(q) - 1)), q[Len(q)])

\* The length of the longest prefix of q with the key of q[1].
RECURSIVE RunLength(_)
RunLength(q) ==
    IF Len(q) <= 1 THEN Len(q)
    ELSE IF q[2].ProductArn = q[1].ProductArn THEN 1 + RunLength(Tail(q)) ELSE 1

\* lines 347-349: groupby(json_asff_file, key=itemgetter("ProductArn")): one
\* group per run of consecutive findings with the same ProductArn.
RECURSIVE groupby(_)
groupby(q) ==
    IF q = <<>> THEN <<>>
    ELSE LET n == RunLength(q) IN
         <<[product_arn |-> q[1].ProductArn, current_findings |-> SubSeq(q, 1, n)]>>
         \o groupby(SubSeq(q, n + 1, Len(q)))

\* line 350: product_arn.split(":")[3]
region_of(product_arn) == product_arn[4]

\* lines 358-360
findings_ids(current_findings) ==
    [i \in 1..Len(current_findings) |-> current_findings[i].Id]

\* findings_filter with only the product, account and region conditions.
findings_filter_any_state(f, account, region) ==
    /\ f.ProductName = "Prowler"
    /\ f.AwsAccountId = account
    /\ f.Region = region

\* findings_filter without the Region criterion.
findings_filter_any_region(f, account, region) ==
    /\ f.ProductName = "Prowler"
    /\ f.RecordState = "ACTIVE"
    /\ f.AwsAccountId = account

\* lines 365-372: findings_filter.
findings_filter(f, account, region) ==
    /\ f.ProductName = "Prowler"
    /\ f.RecordState = "ACTIVE"
    /\ f.AwsAccountId = account
    /\ f.Region = region

\* lines 373-375: what get_findings holds under the filter, in store order.
get_findings(st, account, region) ==
    LET Matches(f) == findings_filter(f, account, region) IN SelectSeq(st, Matches)

\* line 375: get_findings_paginator.paginate(Filters=findings_filter) hands
\* the result out in pages, each page's findings under "Findings".
paginate(found) ==
    LET n == Len(found)
        m == (n + PageSize - 1) \div PageSize
    IN  [k \in 1..m |->
            [Findings |-> SubSeq(found, (k - 1) * PageSize + 1,
                                 IF k * PageSize <= n THEN k * PageSize ELSE n)]]

\* lines 375-377: for page in paginate(...): for finding in page["Findings"],
\* the findings of all pages in order.
RECURSIVE findings_of_pages(_)
findings_of_pages(pages) ==
    IF pages = <<>> THEN <<>>
    ELSE IF Len(pages) = 1 THEN pages[1].Findings
    ELSE LET h == Len(pages) \div 2 IN
         findings_of_pages(SubSeq(pages, 1, h))
            \o findings_of_pages(SubSeq(pages, h + 1, Len(pages)))

\* archive_unseen reading the first page of the result only.
archive_unseen_first_page(pages, current_findings_ids) ==
    LET Unseen(f) == f.Id \notin SeqRange(current_findings_ids)
        Mark(f)   == [f EXCEPT !.RecordState = "ARCHIVED",
                               !.UpdatedAt = strftime(timestamp_utc)]
        first     == IF pages = <<>> THEN <<>> ELSE pages[1].Findings
        unseen    == SelectSeq(first, Unseen)
    IN  [i \in 1..Len(unseen) |-> Mark(unseen[i])]

\* lines 374-384: the findings of the pages whose Id is not among the current
\* ids, marked ARCHIVED and stamped.
archive_unseen(pages, current_findings_ids) ==
    LET Unseen(f) == f.Id \notin SeqRange(current_findings_ids)
        Mark(f)   == [f EXCEPT !.RecordState = "ARCHIVED",
                               !.UpdatedAt = strftime(timestamp_utc)]
        unseen    == SelectSeq(findings_of_pages(pages), Unseen)
    IN  [i \in 1..Len(unseen) |-> Mark(unseen[i])]

Min(a, b) == IF a <= b THEN a ELSE b

\* lines 387-390: findings_to_archive[i : i + 100] for i in range(0, len, 100).
chunk(findings_to_archive) ==
    [k \in 1..((Len(findings_to_archive) + BatchSize - 1) \div BatchSize) |->
        SubSeq(findings_to_archive, (k - 1) * BatchSize + 1,
               Min(k * BatchSize, Len(findings_to_archive)))]

\* Two records of the same finding of the store.
SameFinding(f, g) ==
    /\ f.Id = g.Id
    /\ f.Region = g.Region
    /\ f.AwsAccountId = g.AwsAccountId
    /\ f.ProductName = g.ProductName

\* The store after it imported the findings: each replaces its stored record.
Imported(st, findings) ==
    [i \in 1..Len(st) |->
        IF \E j \in 1..Len(findings) : SameFinding(st[i], findings[j])
        THEN findings[CHOOSE j \in 1..Len(findings) : SameFinding(st[i], findings[j])]
        ELSE st[i]]

\* batch_import_findings(Findings=findings): "ok" imports the batch, "failed"
\* answers FailedCount > 0 having rejected the first finding and imported the
\* others, "raise" raises and imports nothing.
batch_import_findings(st, findings, outcome) ==
    CASE outcome = "ok" -> Imported(st, findings)
      [] outcome = "failed" -> Imported(st, Tail(findings))
      [] OTHER -> st

\* ------------------------------------------------------------------ resolve_security_hub_previous_findings
\* The context of a run without roles, as provider_set_session returns it.
ReconcileInput ==
    [input_profile |-> "default", input_role |-> NoArn,
     input_session_duration |-> 1, input_external_id |-> None,
     input_regions |-> {}, organizations_role_arn |-> NoArn]

ReadyAuditInfo ==
    LET a == InitialAuditInfo(ReconcileInput) IN
    FinishedAuditInfo([a EXCEPT !.original_session = set_session(a, None),
                                !.audited_account = BaseAccount,
                                !.audited_partition = arnparse(BaseArn).partition],
                      NoLocal)

ReadyCalls ==
    validate_credentials(ReadyAuditInfo.original_session, TRUE).issued

InitReconcile ==
    /\ input = ReconcileInput
    /\ pc = "READY"
    /\ current_audit_info = ReadyAuditInfo
    /\ local = [NoLocal EXCEPT !.caller_identity =
                   validate_credentials(ReadyAuditInfo.original_session,
                                        TRUE).caller_identity]
    /\ refreshable = NoRefreshable
    /\ calls = <<Call("session.Session", None, 0, NoArn, FALSE, None, 0, None,
                      TRUE)>> \o ReadyCalls
    /\ clock = 0
    /\ returned = "current_audit_info"
    /\ regional_clients = NoClients
    /\ handed = NoHanded
    /\ \/ json_asff_file \in CurrentFiles /\ store \in SmallStores
       \/ /\ json_asff_file \in CurrentFiles
          /\ Len(json_asff_file) <= 1
          /\ store \in LargeStores
    /\ rc = RcIdle
    /\ hist = NoHist

\* An error logged by the except clause of line 400, or the failed import
\* logged at line 397.
Logged(h) == [h EXCEPT !.errors = h.errors + 1, !.clean = FALSE]

\* The record of a describe_hub (line 354) or get_findings (line 376) call of
\* the group on the regional client.
StoreCall(h, api, r, ok) ==
    [h EXCEPT !.store_calls =
        Append(h.store_calls, [api |-> api, group_no |-> r.group_no,
                               region |-> r.region, ok |-> ok])]

\* lines 337-349: read the file, sort it, group it.  A run starts with fresh
\* locals; hist keeps whether the previous run met no failure.
StartReconcile ==
    /\ pc = "READY"
    /\ rc.pc \in {"idle", "done"}
    /\ rc' = [RcIdle EXCEPT !.pc = "group",
                            !.groups = groupby(sorted(json_asff_file))]
    /\ hist' = [submissions |-> <<>>, store_calls |-> <<>>, errors |-> 0,
                clean |-> TRUE,
                prev_clean |-> rc.pc = "done" /\ hist.clean,
                rerun |-> rc.pc = "done", returned |-> "<running>"]
    /\ UNCHANGED <<svars, json_asff_file, store>>

\* lines 347-360: next group; describe_hub; the ids of the group's findings.
DescribeHub ==
    /\ pc = "READY"
    /\ rc.pc = "group"
    /\ rc.groups # <<>>
    /\ \E ok \in Outcomes :
        LET g == Head(rc.groups)
            r == [rc EXCEPT !.groups = Tail(rc.groups),
                            !.product_arn = g.product_arn,
                            !.region = region_of(g.product_arn),
                            !.group_no = rc.group_no + 1]
        IN  IF ok
            THEN /\ rc' = [r EXCEPT !.pc = "query",
                                    !.current_findings_ids =
                                        findings_ids(g.current_findings)]
                 /\ hist' = StoreCall(hist, "describe_hub", r, TRUE)
            ELSE /\ rc' = r
                 /\ hist' = Logged(StoreCall(hist, "describe_hub", r, FALSE))
    /\ UNCHANGED <<svars, json_asff_file, store>>

\* lines 362-390: query the ACTIVE findings of the region, collect the ones to
\* archive, chunk them.
GetFindings ==
    /\ pc = "READY"
    /\ rc.pc = "query"
    /\ \E ok \in Outcomes :
        IF ok
        THEN LET fta == archive_unseen(
                            paginate(get_findings(store,
                                                  current_audit_info.audited_account,
                                                  rc.region)),
                            rc.current_findings_ids)
             IN  /\ rc' = [rc EXCEPT !.pc = "submit",
                                     !.findings_to_archive = fta,
                                     !.list_chunked = chunk(fta),
                                     !.batch = 1,
                                     !.queried_group = rc.group_no]
                 /\ hist' = StoreCall(hist, "get_findings", rc, TRUE)
        ELSE /\ rc' = [rc EXCEPT !.pc = "group", !.findings_to_archive = <<>>]
             /\ hist' = Logged(StoreCall(hist, "get_findings", rc, FALSE))
    /\ UNCHANGED <<svars, json_asff_file, store>>

\* after_import with the try of line 351 around the loop over the regions: an
\* exception ends the loop over the regions too.
after_import_ending_the_run(r, outcome) ==
    IF outcome = "raise" THEN [r EXCEPT !.pc = "group", !.groups = <<>>]
    ELSE [r EXCEPT !.batch = r.batch + 1]

\* What the loop of lines 391-399 does after a batch_import_findings call: an
\* exception leaves the loop for the except clause of the region, a response
\* with FailedCount > 0 is logged and the loop goes on.
after_import(r, outcome) ==
    IF outcome = "raise" THEN [r EXCEPT !.pc = "group"]
    ELSE [r EXCEPT !.batch = r.batch + 1]

\* lines 391-401: submit the next batch.
BatchImportFindings ==
    /\ pc = "READY"
    /\ rc.pc = "submit"
    /\ rc.batch <= Len(rc.list_chunked)
    /\ \E outcome \in {"ok", "failed", "raise"} :
        LET findings == rc.list_chunked[rc.batch]
            sub == [group_no |-> rc.group_no, region |-> rc.region,
                    product_arn |-> rc.product_arn, batch |-> rc.batch,
                    of |-> Len(rc.list_chunked), Findings |-> findings,
                    outcome |-> outcome]
            h == [hist EXCEPT !.submissions = Append(hist.submissions, sub)]
        IN  /\ store' = batch_import_findings(store, findings, outcome)
            /\ rc' = after_import(rc, outcome)
            /\ hist' = IF outcome = "ok" THEN h ELSE Logged(h)
    /\ UNCHANGED <<svars, json_asff_file>>

\* line 391: the loop over list_chunked is exhausted.
EndOfBatches ==
    /\ pc = "READY"
    /\ rc.pc = "submit"
    /\ rc.batch > Len(rc.list_chunked)
    /\ rc' = [rc EXCEPT !.pc = "group"]
    /\ UNCHANGED <<svars, json_asff_file, store, hist>>

\* line 347: no group is left; the function ends without a return statement.
Return ==
    /\ pc = "READY"
    /\ rc.pc = "group"
    /\ rc.groups = <<>>
    /\ rc' = [rc EXCEPT !.pc = "done"]
    /\ hist' = [hist EXCEPT !.returned = None]
    /\ UNCHANGED <<svars, json_asff_file, store>>

NextReconcile ==
    \/ StartReconcile
    \/ DescribeHub
    \/ GetFindings
    \/ BatchImportFindings
    \/ EndOfBatches
    \/ Return

SpecReconcile == InitReconcile /\ [][NextReconcile]_vars

\* ================================================================== claims
LastCall == calls[Len(calls)]
AssumeRoleCalls == {i \in 1..Len(calls) : calls[i].api = "sts:AssumeRole"}

\* C4: when the audit session's credentials are expired, obtaining them
\* invokes the renewal callback exactly once, that invocation performs a
\* successful assume-role call for the workload role, and the credentials
\* handed to the caller expire in the future; expired material is never
\* handed out.
C4_ExpiredCredentialsAreRenewed ==
    /\ handed.was_expired =>
          /\ handed.refreshes = 1
          /\ calls # <<>>
          /\ LastCall.api = "sts:AssumeRole"
          /\ LastCall.ok
          /\ LastCall.RoleArn = input.input_role
          /\ handed.creds # NoRefreshable
          /\ handed.creds.expiry_time > handed.at
    /\ (handed.at >= 0 /\ handed.creds # NoRefreshable) =>
          handed.creds.expiry_time > handed.at

\* The part of C5 about the returned context: account and partition of the
\* workload role, an audit session of its own on refreshable credentials, and
\* the role the renewal callback reads is the workload role.
C5_Attribution ==
    (returned # None /\ ArnTruthy(input.input_role)) =>
        /\ current_audit_info.audited_account =
               arnparse(input.input_role).account_id
        /\ current_audit_info.audited_partition =
               arnparse(input.input_role).partition
        /\ current_audit_info.audit_session # current_audit_info.original_session
        /\ current_audit_info.audit_session.refreshable
        /\ current_audit_info.assumed_role_info.role_arn = input.input_role

\* C5: with a workload role configured and assumed, the returned context has
\* the workload role's account and partition, its audit session is a session
\* other than the base session built on the assumed credentials, and the
\* renewal callback of that session re-assumes the workload role, with or
\* without an organizations role.
C5_WorkloadRoleContext ==
    /\ C5_Attribution
    /\ (returned # None /\ ArnTruthy(input.input_role) /\ handed.refreshes = 1) =>
          /\ calls # <<>>
          /\ LastCall.api = "sts:AssumeRole"
          /\ LastCall.RoleArn = input.input_role
          /\ Cardinality({i \in AssumeRoleCalls :
                              calls[i].RoleArn = input.input_role}) >= 2

C7_ExternalIdIffSupplied ==
    \A i \in AssumeRoleCalls :
        /\ calls[i].HasExternalId <=> Truthy(input.input_external_id)
        /\ calls[i].HasExternalId => calls[i].ExternalId = input.input_external_id

\* C8: generate_regional_clients returns clients only for regions of the
\* catalog for the service and the context's partition and, when the scope is
\* not empty, of the scope.
C8_ClientsWithinCatalogAndScope ==
    \A i \in 1..Len(regional_clients.clients) :
        LET c == regional_clients.clients[i] IN
        /\ c.region \in SeqRange(json_regions(regional_clients.service,
                                              current_audit_info.audited_partition))
        /\ c.region_name = c.region
        /\ current_audit_info.audited_regions # {} =>
              c.region \in current_audit_info.audited_regions

C8_Witness ==
    /\ Len(regional_clients.clients) = 1
    /\ Cardinality(current_audit_info.audited_regions) = 2
    /\ Len(json_regions(regional_clients.service,
                        current_audit_info.audited_partition)) > 1

\* A failed operation is the last one performed, the process has exited and
\* no context was returned.
C10_FailureIsLastAndFatal ==
    \A i \in 1..Len(calls) :
        ~calls[i].ok => /\ i = Len(calls)
                        /\ pc = "EXITED"
                        /\ returned = None

\* C10: a failure of base session construction, identity validation, role-ARN
\* validation, role assumption or organizations-metadata retrieval ends the
\* process: it is the last operation performed (no later step, no retry), no
\* context is returned, and nothing happens once the process has exited.
C10_FatalFailures ==
    /\ []C10_FailureIsLastAndFatal
    /\ [][pc = "EXITED" => UNCHANGED vars]_vars

C10_Witness ==
    /\ pc = "EXITED"
    /\ Len(calls) > 3
    /\ LastCall.api = "organizations:ListTagsForResource"
    /\ ~LastCall.ok

\* ------------------------------------------------------------------ send_to_security_hub
\* finding_output.dict() as the store keeps it once imported in the region.
finding_dict(region, finding_output) ==
    [Id |-> finding_output.Id, Region |-> region,
     AwsAccountId |-> finding_output.AwsAccountId, ProductName |-> "Prowler",
     RecordState |-> "ACTIVE", UpdatedAt |-> strftime(timestamp_utc)]

\* send_to_security_hub(region, finding_output, session), lines 300-330: the
\* store after describe_hub, list_enabled_products_for_import and
\* batch_import_findings of the one finding.  "ok" imports it, "failed" answers
\* FailedCount > 0 and "raise" is an exception of any of the calls: both are
\* logged and leave the store as it was.
send_to_security_hub(st, region, finding_output, outcome) ==
    LET f == finding_dict(region, finding_output) IN
    IF outcome # "ok" THEN st
    ELSE IF \E i \in 1..Len(st) : SameFinding(st[i], f)
         THEN Imported(st, <<f>>)
         ELSE Append(st, f)

\* A check sends one of the run's findings to the hub of the finding's region
\* on the audit session.
SendToSecurityHub ==
    /\ pc = "READY"
    /\ rc.pc \in {"idle", "done"}
    /\ \E i \in 1..Len(json_asff_file), outcome \in {"ok", "failed", "raise"} :
        LET finding_output ==
                [Id |-> json_asff_file[i].Id,
                 ProductArn |-> json_asff_file[i].ProductArn,
                 AwsAccountId |-> current_audit_info.audited_account]
        IN  store' = send_to_security_hub(
                        store, region_of(json_asff_file[i].ProductArn),
                        finding_output, outcome)
    /\ UNCHANGED <<svars, json_asff_file, rc, hist>>

\* ------------------------------------------------------------------ the whole run
\* The bootstrap followed by everything that works on the context.
DownstreamInputs ==
    {in \in Inputs :
        /\ in.input_session_duration = 1
        /\ \/ /\ in.input_role = NoArn
              /\ in.organizations_role_arn = NoArn
              /\ in.input_external_id = None
              /\ in.input_regions = {}
           \/ /\ in.input_role = RoleArn
              /\ in.organizations_role_arn = OrgRoleArn
              /\ in.input_external_id = "ext-1"
              /\ in.input_regions = {"us-east-1", "cn-north-1"}}

InitDownstream ==
    /\ input \in DownstreamInputs
    /\ pc = "start"
    /\ current_audit_info = InitialAuditInfo(input)
    /\ local = NoLocal
    /\ refreshable = NoRefreshable
    /\ calls = <<>>
    /\ clock = 0
    /\ returned = None
    /\ regional_clients = NoClients
    /\ handed = NoHanded
    /\ json_asff_file = <<[ProductArn |-> ProductArns[3], Id |-> 1]>>
    /\ store = StoreOf(2, 1)
    /\ rc = RcIdle
    /\ hist = NoHist

NextDownstream ==
    \/ SetOriginalSession
    \/ ValidateCredentials
    \/ OrganizationsArnParsing
    \/ SkipOrganizations
    \/ OrganizationsAssumeRole
    \/ GetOrganizationsMetadata
    \/ RoleArnParsing
    \/ SkipRole
    \/ RoleAssumeRole
    \/ SetAssumedSession
    \/ Finish
    \/ GetCredentials
    \/ Tick
    \/ GenerateRegionalClients
    \/ SendToSecurityHub
    \/ StartReconcile
    \/ DescribeHub
    \/ GetFindings
    \/ BatchImportFindings
    \/ EndOfBatches
    \/ Return

SpecDownstream == InitDownstream /\ [][NextDownstream]_vars

\* ------------------------------------------------------------------ claims on the bootstrap order
\* The bootstrap state the variables stand for.
BootstrapState ==
    IF returned # None THEN "READY"
    ELSE IF local.assumed_session # NoSession THEN "ROLE_ASSUMED"
    ELSE IF current_audit_info.organizations_metadata # NoOrganizationsInfo
         THEN "ORG_RESOLVED"
    ELSE IF local.caller_identity # NoIdentity THEN "BASE_VALIDATED"
    ELSE "INIT"

OrgConfigured == ArnTruthy(input.organizations_role_arn)
RoleConfigured == ArnTruthy(input.input_role)

\* The steps the bootstrap may take between its states.
BootstrapStep(s, t) ==
    \/ s = "INIT" /\ t = "BASE_VALIDATED"
    \/ s = "BASE_VALIDATED" /\ t = "ORG_RESOLVED" /\ OrgConfigured
    \/ s = "BASE_VALIDATED" /\ t = "ROLE_ASSUMED" /\ ~OrgConfigured
                            /\ RoleConfigured
    \/ s = "BASE_VALIDATED" /\ t = "READY" /\ ~OrgConfigured /\ ~RoleConfigured
    \/ s = "ORG_RESOLVED" /\ t = "ROLE_ASSUMED" /\ RoleConfigured
    \/ s = "ORG_RESOLVED" /\ t = "READY" /\ ~RoleConfigured
    \/ s = "ROLE_ASSUMED" /\ t = "READY"

\* A successful call of the api for the role is on record.
Succeeded(api, role) ==
    \E i \in 1..Len(calls) :
        calls[i].api = api /\ calls[i].RoleArn = role /\ calls[i].ok

\* What the record of calls and the context show in every state: validation
\* before any role assumption, the organizations link before the workload
\* link, each link only when configured, READY only after all of them.
C12_OrderInCalls ==
    /\ \A i \in AssumeRoleCalls :
          \E j \in 1..(i - 1) :
              calls[j].api = "sts:GetCallerIdentity" /\ calls[j].ok
    /\ \A i \in 1..Len(calls) :
          (/\ calls[i].api \in {"arn_parsing", "sts:AssumeRole"}
           /\ calls[i].RoleArn = input.input_role
           /\ input.input_role # input.organizations_role_arn
           /\ OrgConfigured) =>
              \E j \in 1..(i - 1) :
                  /\ calls[j].api = "organizations:ListTagsForResource"
                  /\ calls[j].ok
    /\ (pc \in {"role_assume", "role_session"} /\ OrgConfigured) =>
          current_audit_info.organizations_metadata # NoOrganizationsInfo
    /\ (\/ pc \in {"org_assume", "org_metadata"}
        \/ current_audit_info.organizations_metadata # NoOrganizationsInfo
        \/ \E i \in 1..Len(calls) :
              calls[i].api \in {"organizations:DescribeAccount",
                                "organizations:ListTagsForResource"})
          => OrgConfigured
    /\ (\/ pc \in {"role_assume", "role_session"}
        \/ local.assumed_session # NoSession
        \/ local.assumed_role_response # NoResponse)
          => RoleConfigured
    /\ returned # None =>
          /\ \E j \in 1..Len(calls) :
                calls[j].api = "sts:GetCallerIdentity" /\ calls[j].ok
          /\ OrgConfigured =>
                /\ Succeeded("sts:AssumeRole", input.organizations_role_arn)
                /\ Succeeded("organizations:DescribeAccount", NoArn)
                /\ Succeeded("organizations:ListTagsForResource", NoArn)
                /\ current_audit_info.organizations_metadata
                      # NoOrganizationsInfo
          /\ RoleConfigured =>
                /\ Succeeded("sts:AssumeRole", input.input_role)
                /\ local.assumed_session # NoSession
                /\ current_audit_info.audit_session = local.assumed_session
          /\ \A j \in 1..Len(calls) : calls[j].ok

\* C12: the bootstrap goes INIT, BASE_VALIDATED, ORG_RESOLVED if an
\* organizations role is configured, ROLE_ASSUMED if a workload role is
\* configured, READY: no role is assumed before the base identity was
\* validated, the organizations link is complete before the workload link
\* starts, and READY comes only after every configured step succeeded.
C12_BootstrapOrder ==
    /\ []C12_OrderInCalls
    /\ [][BootstrapState' # BootstrapState
             => BootstrapStep(BootstrapState, BootstrapState')]_vars

C12_Witness ==
    /\ pc = "READY"
    /\ OrgConfigured
    /\ RoleConfigured
    /\ BootstrapState = "READY"
    /\ Succeeded("sts:AssumeRole", input.organizations_role_arn)
    /\ Succeeded("sts:AssumeRole", input.input_role)

\* ------------------------------------------------------------------ claims on the reconciliation
\* The Ids of the current run's findings of a region.
RegionCurrentIds(r) ==
    {json_asff_file[i].Id :
        i \in {j \in 1..Len(json_asff_file) :
                  region_of(json_asff_file[j].ProductArn) = r}}
CurrentRegions ==
    {region_of(json_asff_file[i].ProductArn) : i \in 1..Len(json_asff_file)}

IdsOf(q) == [i \in 1..Len(q) |-> q[i].Id]

\* The store's ACTIVE findings of this tool and account in the region that the
\* current run did not reproduce.
Stale(r) ==
    LET Unseen(f) == f.Id \notin RegionCurrentIds(r) IN
    SelectSeq(get_findings(store, current_audit_info.audited_account, r), Unseen)

\* The submissions of the run for one group, in order.
GroupSubmissions(g) ==
    LET Of(x) == x.group_no = g IN SelectSeq(hist.submissions, Of)

RECURSIVE ConcatFindings(_)
ConcatFindings(subs) ==
    IF subs = <<>> THEN <<>>
    ELSE subs[1].Findings \o ConcatFindings(Tail(subs))

\* The group was left (its batches were sent, or an exception ended it).
GroupLeft(g) == ~(rc.pc = "submit" /\ rc.group_no = g)

\* C1: in every run and region, the findings marked ARCHIVED and submitted are
\* exactly the store's ACTIVE findings of the region whose Id is not among the
\* current run's Ids of that region; a stored finding reproduced in the
\* current run for its region is never submitted.
C1_ArchivesExactlyTheStale ==
    /\ (rc.pc = "submit" /\ rc.batch = 1) =>
          IdsOf(rc.findings_to_archive) = IdsOf(Stale(rc.region))
    /\ \A i \in 1..Len(hist.submissions) :
          \A j \in 1..Len(hist.submissions[i].Findings) :
             hist.submissions[i].Findings[j].Id
                \notin RegionCurrentIds(hist.submissions[i].region)

\* C2: a run in which every store call succeeded leaves no stale finding
\* ACTIVE in the regions of the current findings, and the run that follows it
\* with the same current findings submits nothing.
C2_SecondRunSubmitsNothing ==
    /\ (hist.rerun /\ hist.prev_clean) => hist.submissions = <<>>
    /\ (rc.pc = "done" /\ hist.clean) => \A r \in CurrentRegions : Stale(r) = <<>>

C2_Witness ==
    /\ hist.rerun
    /\ hist.prev_clean
    /\ rc.pc = "done"
    /\ hist.submissions = <<>>
    /\ Cardinality({i \in 1..Len(store) :
                       /\ store[i].RecordState = "ARCHIVED"
                       /\ store[i].UpdatedAt = strftime(timestamp_utc)}) >= 2

\* C3: the n findings to archive of a region are submitted in ceil(n / 100)
\* calls, none of more than 100 findings, all but the last of exactly 100,
\* and the batches in order make up the findings to archive.
C3_Batches ==
    /\ \A i \in 1..Len(hist.submissions) :
          Len(hist.submissions[i].Findings) <= BatchSize
    /\ (rc.queried_group = rc.group_no /\ rc.group_no > 0 /\ GroupLeft(rc.group_no)) =>
          LET subs == GroupSubmissions(rc.group_no)
              n    == Len(rc.findings_to_archive)
              m    == (n + BatchSize - 1) \div BatchSize
          IN  /\ Len(subs) = m
              /\ \A k \in 1..Len(subs) :
                    k < m => Len(subs[k].Findings) = BatchSize
              /\ ConcatFindings(subs) = rc.findings_to_archive

\* What the code does for C3: the calls made are the first batches, in order,
\* and all of them unless a call raised.
C3_BatchesUnlessRaised ==
    (rc.queried_group = rc.group_no /\ rc.group_no > 0) =>
          LET subs == GroupSubmissions(rc.group_no)
              all  == chunk(rc.findings_to_archive)
          IN  /\ Len(subs) <= Len(all)
              /\ \A k \in 1..Len(subs) : subs[k].Findings = all[k]
              /\ (GroupLeft(rc.group_no)
                  /\ \A k \in 1..Len(subs) : subs[k].outcome # "raise")
                    => Len(subs) = Len(all)

\* C9: a failed batch submission, whether the response reports failed
\* findings or the call raises, does not keep the later batches of the region
\* from being submitted.
C9_LaterBatchesStillSubmitted ==
    \A i \in 1..Len(hist.submissions) :
        LET s == hist.submissions[i] IN
        (s.outcome # "ok" /\ GroupLeft(s.group_no)) =>
            \A k \in (s.batch + 1)..s.of :
                \E j \in 1..Len(hist.submissions) :
                    /\ hist.submissions[j].group_no = s.group_no
                    /\ hist.submissions[j].batch = k

\* What the code does for C9: only a response with FailedCount > 0 lets the
\* later batches through.
C9_AfterFailedCount ==
    \A i \in 1..Len(hist.submissions) :
        LET s == hist.submissions[i] IN
        (s.outcome = "failed" /\ GroupLeft(s.group_no)
         /\ \A j \in 1..Len(hist.submissions) :
               hist.submissions[j].group_no = s.group_no
                  => hist.submissions[j].outcome # "raise") =>
            \A k \in (s.batch + 1)..s.of :
                \E j \in 1..Len(hist.submissions) :
                    /\ hist.submissions[j].group_no = s.group_no
                    /\ hist.submissions[j].batch = k

\* The findings marked ARCHIVED and passed to the store in the run, in order.
ArchivedInRun == ConcatFindings(hist.submissions)

\* C11: when the reconciliation ends it returns the list of the findings it
\* archived in the run, which is empty exactly when nothing was archived.
C11_ReturnsTheArchived ==
    rc.pc = "done" =>
        /\ hist.returned # None
        /\ hist.returned = ArchivedInRun
        /\ (hist.returned = <<>>) <=> (hist.submissions = <<>>)

\* The groups of the run's file, as line 347 iterates over them.
AllGroups == groupby(sorted(json_asff_file))

\* The store calls on record for the group.
GroupStoreCalls(g, api) ==
    LET Of(x) == x.group_no = g /\ x.api = api IN SelectSeq(hist.store_calls, Of)

\* Every failure is logged and ends no more than its region: each group
\* reached so far was handed to describe_hub in its region, queried if the
\* hub answered, and a group that met no exception of its own had all its
\* batches submitted; the run ends only when every group was reached.
C13_EveryRegionIsReached ==
    /\ pc = "READY"
    /\ rc.pc # "idle" =>
          /\ rc.group_no + Len(rc.groups) = Len(AllGroups)
          /\ hist.errors =
                Cardinality({i \in 1..Len(hist.store_calls) :
                                ~hist.store_calls[i].ok})
                + Cardinality({i \in 1..Len(hist.submissions) :
                                  hist.submissions[i].outcome # "ok"})
          /\ \A g \in 1..rc.group_no :
                LET d == GroupStoreCalls(g, "describe_hub")
                    q == GroupStoreCalls(g, "get_findings")
                IN  /\ Len(d) = 1
                    /\ d[1].region = region_of(AllGroups[g].product_arn)
                    /\ Len(q) = IF d[1].ok /\ ~(rc.pc = "query" /\ rc.group_no = g)
                                THEN 1 ELSE 0
                    /\ \A k \in 1..Len(q) : q[k].region = d[1].region
                    /\ (q = <<>> \/ ~q[1].ok) => GroupSubmissions(g) = <<>>
    /\ rc.pc = "done" => rc.groups = <<>>
    /\ C3_BatchesUnlessRaised

\* C13: a failure of describe_hub, of the query or of a submission in one
\* region is logged and does not end the reconciliation: it changes nothing
\* of the other regions, whose groups are still reached, queried and have
\* their findings to archive submitted.
C13_FailuresAreIsolated ==
    /\ []C13_EveryRegionIsReached
    /\ [][hist'.errors > hist.errors =>
            /\ \/ rc'.groups = rc.groups
               \/ rc.groups # <<>> /\ rc'.groups = Tail(rc.groups)
            /\ json_asff_file' = json_asff_file
            /\ Len(store') = Len(store)
            /\ \A i \in 1..Len(store) :
                  store[i].Region # rc'.region => store'[i] = store[i]]_vars

C13_Witness ==
    /\ rc.pc = "done"
    /\ \E i \in 1..Len(hist.store_calls) :
          /\ ~hist.store_calls[i].ok
          /\ \E j \in 1..Len(hist.submissions) :
                /\ hist.submissions[j].group_no > hist.store_calls[i].group_no
                /\ hist.submissions[j].region # hist.store_calls[i].region
                /\ hist.submissions[j].outcome = "ok"
                /\ hist.submissions[j].Findings # <<>>

\* The Ids of the current run's findings.
AllCurrentIds == {json_asff_file[i].Id : i \in 1..Len(json_asff_file)}

\* The stored finding is of this tool and the audited account, in a region of
\* the current findings, and its Id is not among the current run's Ids.
StaleInStore(f) ==
    /\ f.ProductName = "Prowler"
    /\ f.AwsAccountId = current_audit_info.audited_account
    /\ f.Region \in CurrentRegions
    /\ f.Id \notin AllCurrentIds

\* C14: when a run in which every store call succeeded ends, no finding of
\* this tool and account in a region of the current findings is ACTIVE in the
\* store unless its Id is among the current run's Ids, and each of them the
\* run found ACTIVE was submitted with state ARCHIVED, on whatever result page
\* it came.
C14_NoStaleLeftActive ==
    /\ \A j \in 1..Len(hist.submissions) :
          \A k \in 1..Len(hist.submissions[j].Findings) :
              hist.submissions[j].Findings[k].RecordState = "ARCHIVED"
    /\ (rc.pc = "done" /\ hist.clean) =>
          \A i \in 1..Len(store) :
              StaleInStore(store[i]) =>
                  /\ store[i].RecordState = "ARCHIVED"
                  /\ (~hist.rerun /\ store[i].UpdatedAt # Earlier) =>
                        \E j \in 1..Len(hist.submissions) :
                            \E k \in 1..Len(hist.submissions[j].Findings) :
                                hist.submissions[j].Findings[k] = store[i]

C14_Witness ==
    /\ rc.pc = "done"
    /\ hist.clean
    /\ ~hist.rerun
    /\ \E j \in 1..Len(hist.submissions) :
          /\ Len(hist.submissions[j].Findings) >= PageSize
          /\ \A k \in 1..Len(hist.submissions[j].Findings) :
                \E i \in 1..Len(store) :
                    /\ store[i] = hist.submissions[j].Findings[k]
                    /\ StaleInStore(store[i])

\* The (submission, position) pairs of the run's submitted findings.
Submitted ==
    {<<j, k>> \in (1..Len(hist.submissions)) \X (1..BatchSize) :
        k <= Len(hist.submissions[j].Findings)}

\* C15: within one run each batch is passed to batch_import_findings at most
\* once and no stored finding is in more than one submission call.
C15_NothingResubmitted ==
    /\ \A i, j \in 1..Len(hist.submissions) :
          (/\ hist.submissions[i].group_no = hist.submissions[j].group_no
           /\ hist.submissions[i].batch = hist.submissions[j].batch) => i = j
    /\ \A a, b \in Submitted :
          SameFinding(hist.submissions[a[1]].Findings[a[2]],
                      hist.submissions[b[1]].Findings[b[2]]) => a[1] = b[1]

\* What the code does for C15: no batch is passed twice, and no stored finding
\* is submitted twice for one ProductArn.
C15_OncePerProductArn ==
    /\ \A i, j \in 1..Len(hist.submissions) :
          (/\ hist.submissions[i].group_no = hist.submissions[j].group_no
           /\ hist.submissions[i].batch = hist.submissions[j].batch) => i = j
    /\ \A a, b \in Submitted :
          (/\ SameFinding(hist.submissions[a[1]].Findings[a[2]],
                          hist.submissions[b[1]].Findings[b[2]])
           /\ hist.submissions[a[1]].group_no = hist.submissions[b[1]].group_no)
             => a = b

\* Every store call on record is for a region of the current findings.
C16_CallsInCurrentRegions ==
    /\ \A i \in 1..Len(hist.store_calls) :
          hist.store_calls[i].region \in CurrentRegions
    /\ \A j \in 1..Len(hist.submissions) :
          /\ hist.submissions[j].region \in CurrentRegions
          /\ \A k \in 1..Len(hist.submissions[j].Findings) :
                hist.submissions[j].Findings[k].Region
                    = hist.submissions[j].region
    /\ rc.pc \in {"query", "submit"} => rc.region \in CurrentRegions

\* C16: describe_hub, the query and the submissions are made only for regions
\* in the ProductArn of a current finding; a region without current findings
\* gets no call and its stored findings stay as they are, the ACTIVE ones
\* ACTIVE.
C16_OtherRegionsUntouched ==
    /\ []C16_CallsInCurrentRegions
    /\ [][/\ Len(store') = Len(store)
          /\ \A i \in 1..Len(store) :
                store[i].Region \notin CurrentRegions => store'[i] = store[i]]_vars

C16_Witness ==
    /\ rc.pc = "done"
    /\ hist.clean
    /\ \E j \in 1..Len(hist.submissions) : hist.submissions[j].Findings # <<>>
    /\ \E i \in 1..Len(store) :
          /\ store[i].Region \notin CurrentRegions
          /\ store[i].ProductName = "Prowler"
          /\ store[i].AwsAccountId = current_audit_info.audited_account
          /\ store[i].RecordState = "ACTIVE"
          /\ store[i].Id \notin AllCurrentIds

\* What of the context the claim speaks of.
ContextIdentity ==
    [audited_account        |-> current_audit_info.audited_account,
     audited_partition      |-> current_audit_info.audited_partition,
     audited_regions        |-> current_audit_info.audited_regions,
     original_session       |-> current_audit_info.original_session,
     audit_session          |-> current_audit_info.audit_session,
     profile_region         |-> current_audit_info.profile_region,
     organizations_metadata |-> current_audit_info.organizations_metadata]

\* C17: once the context was returned, no call of generate_regional_clients,
\* send_to_security_hub or resolve_security_hub_previous_findings and no
\* credential renewal changes its account, partition, region scope, base
\* session, audit session, default region or organizations metadata.
C17_ContextIsStable ==
    [][returned # None => ContextIdentity' = ContextIdentity]_vars

C17_Witness ==
    /\ returned # None
    /\ current_audit_info.audit_session.refreshable
    /\ handed.was_expired
    /\ regional_clients.clients # <<>>
    /\ hist.submissions # <<>>
    /\ \E i \in 1..Len(store) :
          /\ store[i].RecordState = "ACTIVE"
          /\ store[i].UpdatedAt = strftime(timestamp_utc)

\* The regions of the service in the audited partition that are in the region
\* scope, all of them when the scope is empty.
SurvivingRegions ==
    LET json == SeqRange(json_regions(regional_clients.service,
                                      current_audit_info.audited_partition))
    IN  IF current_audit_info.audited_regions # {}
        THEN json \cap current_audit_info.audited_regions
        ELSE json

\* The clients returned are one per surviving region, of the service, on the
\* audit session and tagged with their region.
C19_ClientsOfTheSurvivingRegions ==
    regional_clients.service # None =>
        LET clients == regional_clients.clients IN
        /\ {clients[i].region : i \in 1..Len(clients)} = SurvivingRegions
        /\ Len(clients) = Cardinality(SurvivingRegions)
        /\ \A i \in 1..Len(clients) :
              /\ clients[i].service = regional_clients.service
              /\ clients[i].session = current_audit_info.audit_session.name
              /\ clients[i].region_name = clients[i].region

\* C19: generate_regional_clients returns exactly one client for every
\* surviving region, none left out and none twice, each created from the
\* context's audit session and tagged with its region; when no region
\* survives the result is empty and the call ends without error.
C19_OneClientPerRegion ==
    /\ []C19_ClientsOfTheSurvivingRegions
    /\ [][regional_clients' # regional_clients => pc' = "READY"]_vars

C19_Witness ==
    /\ Len(regional_clients.clients) = 2
    /\ regional_clients.clients[1].region # regional_clients.clients[2].region
    /\ current_audit_info.audit_session # current_audit_info.original_session
    /\ current_audit_info.audited_regions = {}

\* A call with a scope that no region of the service is in.
C19_EmptyWitness ==
    /\ regional_clients.service = "ec2"
    /\ regional_clients.clients = <<>>
    /\ current_audit_info.audited_regions # {}

\* The account an organizations metadata record describes: the account id at
\* the end of the account's ARN.
DescribedAccount(info) == info.account_details_arn[Len(info.account_details_arn)]

\* C20: the organizations link asks for the account description and the tags
\* of the base identity's account; with a workload role of another account
\* the returned context carries the metadata of the base account and the
\* account id of the workload role.
C20_MetadataOfTheBaseAccount ==
    /\ \A i \in 1..Len(calls) :
          calls[i].api \in {"organizations:DescribeAccount",
                            "organizations:ListTagsForResource"}
             => calls[i].AccountId = local.caller_identity.Account
    /\ (returned # None /\ OrgConfigured) =>
          /\ DescribedAccount(current_audit_info.organizations_metadata)
                = local.caller_identity.Account
          /\ RoleConfigured =>
                /\ current_audit_info.audited_account
                      = arnparse(input.input_role).account_id
                /\ current_audit_info.audited_account
                      # DescribedAccount(current_audit_info.organizations_metadata)

C20_Witness ==
    /\ returned # None
    /\ OrgConfigured
    /\ RoleConfigured
    /\ current_audit_info.audited_account = "222222222222"
    /\ DescribedAccount(current_audit_info.organizations_metadata) = BaseAccount

====
